---- MODULE Spec2Model ----
(***************************************************************************)
(* Model of keystone.py: the protocol reader get_data_from_EVM_GUI, the    *)
(* tick handler animate, the selection policy pick_best and the geometry   *)
(* function calc_angle.                                                    *)
(*                                                                         *)
(* Text is a sequence of one-character strings.  Python values of mixed    *)
(* type (None / list, int / list) are tagged records.                      *)
(***************************************************************************)
EXTENDS Integers, Sequences, FiniteSets, TLC

VARIABLES
    pc,        \* position of the animate tick: "idle", "recv", "raised"
    st,        \* locals of get_data_from_EVM_GUI: xtalk, background, iterations, obj
    tof_id,    \* module global tof_id
    result,    \* value returned by the last get_data_from_EVM_GUI call
    signal,    \* what the last animate tick handed to the rendering side
    wire,      \* bytes sent by the peer and not yet received
    wtag,      \* per byte of wire: the trigger the peer emitted it for
    sent,      \* number of trigger commands '(m0)' sent so far
    dev,       \* the peer: trigger being answered, script, next record
    closed,    \* the peer has closed the connection
    stale,     \* the current call has received bytes of an earlier trigger
    lastbuf,   \* the buffer returned by the last receive of the current call
    ev,        \* outcome of the last receive of the current call
    partials,  \* receives so far that returned less than was available
    fn,        \* pure-function harness: which function is applied
    args,      \* pure-function harness: its arguments
    out        \* pure-function harness: its outcome

vars == <<pc, st, tof_id, result, signal, wire, wtag, sent, dev, closed,
          stale, lastbuf, ev, partials, fn, args, out>>

readerVars == <<pc, st, tof_id, result, signal, wire, wtag, sent, dev, closed,
                stale, lastbuf, ev, partials>>

pureVars == <<fn, args, out>>

----------------------------------------------------------------------------
(* Text helpers *)

CR == "\r"
LF == "\n"
CRLF == <<CR, LF>>
SEMI == <<";">>

Min(a, b) == IF a <= b THEN a ELSE b

\* Python slice s[i:]  (0-based i), s[:n] and s[i:j]
SliceFrom(s, i) == SubSeq(s, i + 1, Len(s))
SliceTo(s, n) == SubSeq(s, 1, Min(n, Len(s)))
Slice(s, i, j) == SubSeq(s, i + 1, Min(j, Len(s)))

\* F applied to the value of v, v being evaluated once (an assignment to
\* a local variable)
Bind(v, F(_)) == CHOOSE r \in {F(x) : x \in {v}} : TRUE

\* the positions at which sep occurs in s
Occurrences(s, sep) ==
    {i \in 1..(Len(s) - Len(sep) + 1) :
        \A k \in 1..Len(sep) : s[i + k - 1] = sep[k]}

\* the members of a set of integers in increasing order
Ascending(S) ==
    Bind([i \in S |-> Cardinality({j \in S : j < i})], LAMBDA rank :
        <<>> \o [k \in 1..Cardinality(S) |-> CHOOSE i \in S : rank[i] = k - 1])

\* str.split(sep) for a separator that cannot overlap itself (as '\r\n'
\* and ';'): always at least one piece
Split(s, sep) ==
    Bind(Ascending(Occurrences(s, sep)), LAMBDA pos :
        <<>> \o [k \in 1..(Len(pos) + 1) |->
                    SubSeq(s, IF k = 1 THEN 1 ELSE pos[k - 1] + Len(sep),
                              IF k > Len(pos) THEN Len(s) ELSE pos[k] - 1)])

----------------------------------------------------------------------------
(* int(str) *)

Digits == <<"0", "1", "2", "3", "4", "5", "6", "7", "8", "9">>
IsDigit(c) == \E k \in 1..10 : Digits[k] = c
DigitVal(c) == (CHOOSE k \in 1..10 : Digits[k] = c) - 1
Whitespace == {" ", CR, LF, "\t"}

RECURSIVE LStrip(_)
LStrip(s) == IF s # <<>> /\ Head(s) \in Whitespace THEN LStrip(Tail(s)) ELSE s

RECURSIVE RStrip(_)
RStrip(s) ==
    IF s # <<>> /\ s[Len(s)] \in Whitespace
    THEN RStrip(SubSeq(s, 1, Len(s) - 1)) ELSE s

\* digits with single underscores between digits
DigitsOk(s) ==
    /\ s # <<>>
    /\ IsDigit(s[1]) /\ IsDigit(s[Len(s)])
    /\ \A k \in 1..Len(s) : IsDigit(s[k]) \/ s[k] = "_"
    /\ \A k \in 1..(Len(s) - 1) : ~(s[k] = "_" /\ s[k + 1] = "_")

RECURSIVE DigitsVal(_, _)
DigitsVal(s, acc) ==
    IF s = <<>> THEN acc
    ELSE IF Head(s) = "_" THEN DigitsVal(Tail(s), acc)
    ELSE DigitsVal(Tail(s), 10 * acc + DigitVal(Head(s)))

\* int(s) for a str s: [ok |-> FALSE] stands for ValueError
PyInt(s) ==
    LET t == RStrip(LStrip(s))
        signed == t # <<>> /\ Head(t) \in {"+", "-"}
        body == IF signed THEN Tail(t) ELSE t
    IN IF DigitsOk(body)
       THEN [ok |-> TRUE,
             val |-> IF signed /\ Head(t) = "-"
                     THEN 0 - DigitsVal(body, 0) ELSE DigitsVal(body, 0)]
       ELSE [ok |-> FALSE, val |-> 0]

\* [int(x) for x in fields]
AllInts(fields) == \A k \in 1..Len(fields) : PyInt(fields[k]).ok
IntList(fields) == [k \in 1..Len(fields) |-> PyInt(fields[k]).val]

----------------------------------------------------------------------------
(* pick_best *)

\* a raised exception, or a returned value
Raise(e) == [exc |-> e, val |-> 0]
Return(v) == [exc |-> "none", val |-> v]

\* obj is a Python list of ints; list index k is element k + 1 here
pick_best(obj) ==
    IF Len(obj) < 4 THEN Raise("IndexError")
    ELSE IF obj[2] > obj[4] THEN Return(obj[1])
    ELSE Return(obj[3])

----------------------------------------------------------------------------
(* calc_angle.  Floats are modelled in fixed point: angles in units of     *)
(* 1/Deg degree (so that 33/3 and 32/3 degrees are exact), sines and       *)
(* cosines in units of 1/TrigScale from a table with a step of 1/3 degree, *)
(* lengths with an adaptive decimal scale chosen so that every             *)
(* intermediate value fits 31 bits.  The model agrees with the floating-   *)
(* point result to within AngleTol / Deg = 0.05 degree on the inputs used. *)

TrigRoot == 1000
TrigScale == TrigRoot * TrigRoot
Deg == 3000
TabStep == 1000
AngleTol == Deg \div 20

\* sin(d / 3 degrees) * TrigScale, d = 0..270
SinTab == <<
     0, 5818, 11635, 17452, 23269, 29085, 34899, 40713,
     46525, 52336, 58145, 63952, 69756, 75559, 81359, 87156,
     92950, 98741, 104528, 110313, 116093, 121869, 127642, 133410,
     139173, 144932, 150686, 156434, 162178, 167916, 173648, 179375,
     185095, 190809, 196517, 202218, 207912, 213599, 219279, 224951,
     230616, 236273, 241922, 247563, 253195, 258819, 264434, 270040,
     275637, 281225, 286803, 292372, 297930, 303479, 309017, 314545,
     320062, 325568, 331063, 336547, 342020, 347481, 352931, 358368,
     363793, 369206, 374607, 379994, 385369, 390731, 396080, 401415,
     406737, 412045, 417338, 422618, 427884, 433135, 438371, 443593,
     448799, 453990, 459166, 464327, 469472, 474600, 479713, 484810,
     489890, 494953, 500000, 505030, 510043, 515038, 520016, 524977,
     529919, 534844, 539751, 544639, 549509, 554360, 559193, 564007,
     568801, 573576, 578332, 583069, 587785, 592482, 597159, 601815,
     606451, 611067, 615661, 620235, 624789, 629320, 633831, 638320,
     642788, 647233, 651657, 656059, 660439, 664796, 669131, 673443,
     677732, 681998, 686242, 690462, 694658, 698832, 702981, 707107,
     711209, 715286, 719340, 723369, 727374, 731354, 735309, 739239,
     743145, 747025, 750880, 754710, 758514, 762292, 766044, 769771,
     773472, 777146, 780794, 784416, 788011, 791579, 795121, 798636,
     802123, 805584, 809017, 812423, 815801, 819152, 822475, 825770,
     829038, 832277, 835488, 838671, 841825, 844951, 848048, 851117,
     854156, 857167, 860149, 863102, 866025, 868920, 871784, 874620,
     877425, 880201, 882948, 885664, 888350, 891007, 893633, 896229,
     898794, 901329, 903834, 906308, 908751, 911164, 913545, 915896,
     918216, 920505, 922762, 924989, 927184, 929348, 931480, 933580,
     935650, 937687, 939693, 941666, 943609, 945519, 947397, 949243,
     951057, 952838, 954588, 956305, 957990, 959642, 961262, 962849,
     964404, 965926, 967415, 968872, 970296, 971687, 973045, 974370,
     975662, 976921, 978148, 979341, 980500, 981627, 982721, 983781,
     984808, 985801, 986762, 987688, 988582, 989442, 990268, 991061,
     991820, 992546, 993238, 993897, 994522, 995113, 995671, 996195,
     996685, 997141, 997564, 997953, 998308, 998630, 998917, 999171,
     999391, 999577, 999729, 999848, 999932, 999983, 1000000 >>

\* math.sin(math.radians(g / Deg)) * TrigScale for 0 <= g <= 90 * Deg
SinMd(g) ==
    LET d == g \div TabStep
        r == g % TabStep
    IN IF r = 0 THEN SinTab[d + 1]
       ELSE SinTab[d + 1] + ((SinTab[d + 2] - SinTab[d + 1]) * r) \div TabStep

\* math.cos(math.radians(g / Deg)) * TrigScale for 0 <= g <= 90 * Deg
CosMd(g) == SinMd(90 * Deg - g)

\* floor(x * y / TrigScale) for 0 <= x < 2^31, 0 <= y <= TrigScale, by
\* long multiplication in base TrigRoot (no product exceeds 2^31)
MulScaled(x, y) ==
    LET xh == x \div TrigRoot
        xl == x % TrigRoot
        yh == y \div TrigRoot
        yl == y % TrigRoot
    IN xh * yh + (xh * yl + xl * yh + (xl * yl) \div TrigRoot) \div TrigRoot

\* floor(x * TrigScale / a) for a > 0, by long division in base TrigRoot
\* (a * TrigRoot < 2^31 and x / a < 2147)
DivScaled(x, a) ==
    LET r1 == x % a
        r2 == (r1 * TrigRoot) % a
    IN (x \div a) * TrigScale
         + ((r1 * TrigRoot) \div a) * TrigRoot
         + (r2 * TrigRoot) \div a

\* floor(sqrt(n)) for 0 <= n < 2^31: the multiple of SqrtStep below the
\* root first, then the root (x * x <= n is written x <= n \div x)
SqrtStep == 216

IsSqrtFloor(x, n, step) ==
    /\ x = 0 \/ x <= n \div x
    /\ n \div (x + step) < x + step

ISqrt(n) ==
    Bind(CHOOSE h \in 0..214 : IsSqrtFloor(h * SqrtStep, n, SqrtStep),
         LAMBDA h :
            CHOOSE x \in (h * SqrtStep)..(h * SqrtStep + SqrtStep - 1) :
                IsSqrtFloor(x, n, 1))

\* math.degrees(math.asin(y / TrigScale)) * Deg for 0 <= y <= TrigScale:
\* the table step that holds y, then linear interpolation inside it
AsinMd(y) ==
    IF y >= TrigScale THEN 90 * Deg
    ELSE Bind(CHOOSE d \in 0..269 : SinTab[d + 1] <= y /\ y < SinTab[d + 2],
              LAMBDA d :
                 d * TabStep + ((y - SinTab[d + 1]) * TabStep)
                                 \div (SinTab[d + 2] - SinTab[d + 1]))

Max(a, b) == IF a >= b THEN a ELSE b

\* scale factor that brings max(center, edge) into 1001..2000 (the result
\* depends on the ratio of the two lengths only); lengths above 2000 are
\* kept as they are
NormFactor(center, edge) ==
    LET m == Max(center, edge)
    IN IF m = 0 \/ m >= 2000 THEN 1 ELSE 2000 \div m

\* (center**2 + edge**2 - 2*center*edge*cos(alpha)) * 100, for normalised
\* center, edge; written as 100*(c-e)^2 + 200*c*e*(1-cos) to stay in range
Radicand100(c, e, alpha) ==
    100 * (c - e) * (c - e)
      + MulScaled(200 * c * e, TrigScale - CosMd(alpha))

\* decimal scale of the square root: a = SqrtA / AUnit
AUnit(r100) ==
    IF r100 < 214748 THEN 1000 ELSE IF r100 < 21474836 THEN 100 ELSE 10

SqrtA(r100) == ISqrt(r100 * (AUnit(r100) \div 10) * (AUnit(r100) \div 10))

PyFloat(v) == [t |-> "float", v |-> v]
PyIntV(v) == [t |-> "int", v |-> v]

\* the except clause of calc_angle
CatchesNothing(e) == FALSE

CalcCatches(e) == e = "ZeroDivisionError"

\* phi = 90 - gamma
PhiSameAsGamma(gamma) == gamma

Phi(gamma) == 90 * Deg - gamma

\* a = math.sqrt(...), as SqrtA / AUnit of the normalised lengths
ThirdSide(center, edge, alpha) ==
    LET f == NormFactor(center, edge)
    IN SqrtA(Radicand100(center * f, edge * f, alpha))

\* body of the try block: center, edge >= 0 integers (mm), alpha in 1/Deg
\* degree; the value is phi in 1/Deg degree
CalcBody(center, edge, alpha) ==
    LET f == NormFactor(center, edge)
        c == center * f
        e == edge * f
    IN Bind(AUnit(Radicand100(c, e, alpha)), LAMBDA u :
       Bind(ThirdSide(center, edge, alpha), LAMBDA a :
        IF a = 0 THEN Raise("ZeroDivisionError")             \* edge / a
        ELSE Bind(DivScaled(e * u, a), LAMBDA q :            \* edge / a
             Bind(MulScaled(q, SinMd(alpha)), LAMBDA y :
              IF y > TrigScale THEN Raise("ValueError")      \* math.asin
              ELSE Bind(Phi(AsinMd(y)), LAMBDA phi :
                    IF e * e - c * c > (a * a) \div (u * u)
                    THEN Return(PyFloat(0 - phi))
                    ELSE Return(PyFloat(phi)))))))

calc_angle(center, edge, alpha) ==
    LET r == CalcBody(center, edge, alpha)
    IN IF r.exc # "none" /\ CalcCatches(r.exc) THEN Return(PyIntV(0)) ELSE r

----------------------------------------------------------------------------
(* get_data_from_EVM_GUI: processing of one record *)

TagVER == <<"#", "V", "E", "R">>
TagHLONG == <<"#", "H", "L", "O", "N", "G">>
TagOBJ == <<"#", "O", "B", "J">>
TagITT == <<"#", "I", "T", "T">>

PyList(v) == [t |-> "list", v |-> v]
PyNone == [isNone |-> TRUE, v |-> <<>>]
PySome(v) == [isNone |-> FALSE, v |-> v]

\* tof_id: None, '' or the identity text
IdNone == <<"None">>
IdEmpty == <<>>
Ident(id, app, drv) ==
    <<"TMF882X ID ">> \o id \o <<" - App ">> \o app \o <<" - Drv ">> \o drv

RECURSIVE SeqMax(_)
SeqMax(q) ==
    IF Len(q) = 1 THEN q[1] ELSE Max(q[1], SeqMax(Tail(q)))

RECURSIVE SeqSum(_)
SeqSum(q) == IF q = <<>> THEN 0 ELSE q[1] + SeqSum(Tail(q))

\* locals at entry; background holds sum(pt_hist[0:8]), i.e. the value
\* times 8 (the code divides by 8 in floating point)
InitLocals ==
    [xtalk |-> [k \in 1..10 |-> 0],
     background |-> [k \in 1..10 |-> 0],
     iterations |-> 0,
     obj |-> PyNone]

\* processing context: locals, global tof_id, pending exception, returned
Ctx(l, id) == [st |-> l, tof_id |-> id, exc |-> "none", ret |-> FALSE]

Skip(c) == c.exc # "none" \/ c.ret

\* if data[0] == '#VER'
StepVer(c, data) ==
    IF Skip(c) \/ data[1] # TagVER THEN c
    ELSE IF Len(data) < 4 THEN [c EXCEPT !.exc = "IndexError"]
    ELSE [c EXCEPT !.tof_id = Ident(data[2], data[3], data[4])]

\* if data[0][0:6] == '#HLONG'
StepHlong(c, data) ==
    IF Skip(c) \/ SliceTo(data[1], 6) # TagHLONG THEN c
    ELSE IF Len(data[1]) < 8 THEN [c EXCEPT !.exc = "IndexError"]
    ELSE LET entry == PyInt(<< data[1][8] >>)
             fields == SliceFrom(data, 1)
         IN IF ~entry.ok \/ ~AllInts(fields)
            THEN [c EXCEPT !.exc = "ValueError"]
            ELSE LET pt_hist == IntList(fields)
                     peak == Slice(pt_hist, 5, 20)
                 IN IF peak = <<>>                       \* max([])
                    THEN [c EXCEPT !.exc = "ValueError"]
                    ELSE [c EXCEPT
                            !.st.xtalk[entry.val + 1] = SeqMax(peak),
                            !.st.background[entry.val + 1] =
                                SeqSum(Slice(pt_hist, 0, 8))]

\* data[5:] of an '#OBJ' record
ObjPayloadFrom4(data) == SliceFrom(data, 4)

ObjPayload(data) == SliceFrom(data, 5)

\* if data[0] == '#OBJ'
StepObj(c, data) ==
    IF Skip(c) \/ data[1] # TagOBJ THEN c
    ELSE IF ~AllInts(ObjPayload(data)) THEN [c EXCEPT !.exc = "ValueError"]
    ELSE [c EXCEPT !.st.obj = PySome(IntList(ObjPayload(data))),
                   !.ret = TRUE]

\* if data[0] == '#ITT'
StepItt(c, data) ==
    IF Skip(c) \/ data[1] # TagITT THEN c
    ELSE IF Len(data) < 3 THEN [c EXCEPT !.exc = "IndexError"]
    ELSE IF ~PyInt(data[3]).ok THEN [c EXCEPT !.exc = "ValueError"]
    ELSE [c EXCEPT !.st.iterations = PyInt(data[3]).val]

\* except (ValueError, IndexError)
CatchesValueErrorOnly(e) == e = "ValueError"

Catches(e) == e \in {"ValueError", "IndexError"}

\* body of the for loop, for one item of entries
ProcessItem(c, item) ==
    Bind(Split(item, SEMI), LAMBDA data :
    Bind(StepVer(c, data), LAMBDA c1 :
    Bind(StepHlong(c1, data), LAMBDA c2 :
    Bind(StepObj(c2, data), LAMBDA c3 :
    Bind(StepItt(c3, data), LAMBDA r :
        IF Catches(r.exc) THEN [r EXCEPT !.exc = "none"] ELSE r)))))

\* for item in entries, left as soon as the body returns or raises
RECURSIVE ProcessFrom(_, _, _)
ProcessFrom(c, items, k) ==
    IF k > Len(items) \/ Skip(c) THEN c
    ELSE Bind(ProcessItem(c, items[k]), LAMBDA c1 :
              ProcessFrom(c1, items, k + 1))

ProcessItems(c, items) == ProcessFrom(c, items, 1)

\* one received buffer
ProcessBuffer(c, buf) ==
    Bind(Split(buf, CRLF), LAMBDA entries : ProcessItems(c, entries))

\* the two return statements
SnapshotResult(l) ==
    [description |-> "XTalk BG",
     xtalk |-> PyList(l.xtalk),
     background |-> PyList(l.background),
     iterations |-> l.iterations,
     obj |-> l.obj]

NoDeviceResult ==
    [description |-> "No device connected",
     xtalk |-> PyIntV(0),
     background |-> PyIntV(0),
     iterations |-> 0,
     obj |-> PyNone]

\* tof_id after the except socket.timeout branch
TimeoutIdKept(id) == id

TimeoutId(id) == IdEmpty

\* no call has returned yet
Pending ==
    [description |-> "pending",
     xtalk |-> PyIntV(0),
     background |-> PyIntV(0),
     iterations |-> 0,
     obj |-> PyNone]

----------------------------------------------------------------------------
(* animate: what a tick hands to the rendering side once the reader has    *)
(* returned *)

AngleZoneLeftRight == (33 * Deg) \div 3
AngleZoneUpDown == (32 * Deg) \div 3
MaxAngleDeviation == 15

\* if obj:
Truthy(o) == ~o.isNone /\ o.v # <<>>

\* the zone loop raises IndexError: obj[index], obj[index+1] (only when
\* obj[index] > 0), obj[index+2], obj[index+3] (only when obj[index+2] > 0)
ZoneLoopRaises(o) ==
    \E i \in 0..8 :
        \/ Len(o) < 4 * i + 1
        \/ o[4 * i + 1] > 0 /\ Len(o) < 4 * i + 2
        \/ Len(o) < 4 * i + 3
        \/ o[4 * i + 3] > 0 /\ Len(o) < 4 * i + 4

NoAngles == <<0, 0, 0, 0>>
Undrawn == [kind |-> "none", angles |-> NoAngles, color |-> "none"]
Disconnected == [kind |-> "disconnected", angles |-> NoAngles, color |-> "red"]
Skipped == [kind |-> "skipped", angles |-> NoAngles, color |-> "none"]
Raised == [kind |-> "raised", angles |-> NoAngles, color |-> "none"]

\* the information frame and the 3d view
Drawn(left, right, top, bottom) ==
    [kind |-> "rendered",
     angles |-> <<left, right, top, bottom>>,
     color |-> IF \/ top + bottom > MaxAngleDeviation * Deg
                  \/ left + right > MaxAngleDeviation * Deg
               THEN "red" ELSE "darkblue"]

\* the body of the try block of animate
RenderObj(o) ==
    IF ZoneLoopRaises(o) THEN Skipped
    ELSE
    Bind(pick_best(SliceFrom(o, 4 * 4)), LAMBDA center :
    Bind(pick_best(SliceFrom(o, 1 * 4)), LAMBDA top :
    Bind(pick_best(SliceFrom(o, 7 * 4)), LAMBDA bottom :
    Bind(pick_best(SliceFrom(o, 3 * 4)), LAMBDA left :
    Bind(pick_best(SliceFrom(o, 5 * 4)), LAMBDA right :
      IF \E r \in {center, top, bottom, left, right} : r.exc # "none"
      THEN Skipped                                      \* except IndexError
      ELSE
      Bind(calc_angle(center.val, top.val, AngleZoneUpDown),
           LAMBDA top_angle :
      Bind(calc_angle(center.val, bottom.val, AngleZoneUpDown),
           LAMBDA bottom_angle :
      Bind(calc_angle(center.val, left.val, AngleZoneLeftRight),
           LAMBDA left_angle :
      Bind(calc_angle(center.val, right.val, AngleZoneLeftRight),
           LAMBDA right_angle :
        IF \E r \in {top_angle, bottom_angle, left_angle, right_angle} :
              r.exc # "none"
        THEN Raised
        ELSE Drawn(left_angle.val.v, right_angle.val.v,
                   top_angle.val.v, bottom_angle.val.v))))))))))

\* lines 194-238
Render(res) == IF Truthy(res.obj) THEN RenderObj(res.obj.v) ELSE Disconnected

----------------------------------------------------------------------------
(* The peer (EVM GUI): the records it emits in answer to a trigger *)

RECURSIVE Join(_, _)
Join(fields, sep) ==
    IF Len(fields) = 1 THEN fields[1]
    ELSE fields[1] \o sep \o Join(Tail(fields), sep)

Line(fields) == Join(fields, SEMI) \o CRLF
D(n) == << Digits[n + 1] >>

\* 9 zones of (distance, confidence, distance, confidence)
Payload36 == [k \in 1..36 |-> (7 * k) % 10]

RecVER == Line(<<TagVER, D(7), D(1), D(2)>>)
RecVER2 == Line(<<TagVER, D(9), D(9), D(9)>>)
RecHLONG == Line(<<TagHLONG \o <<"0", "1">>,
                   D(1), D(2), D(3), D(4), D(5), D(6), D(7)>>)
RecITT == Line(<<TagITT, D(0), <<"4", "0">> >>)
RecOBJ36 == Line(<<TagOBJ, D(0), D(0), D(0), D(0)>>
                 \o [k \in 1..36 |-> D(Payload36[k])])
RecOBJshort == Line(<<TagOBJ, D(0), D(0), D(0), D(0), <<"1", "2">>, <<"3", "4">> >>)
RecOBJempty == Line(<<TagOBJ, D(0), D(0), D(0), D(0)>>)
RecBadVER == Line(<<TagVER, D(1)>>)
RecBadHLONG == Line(<<TagHLONG \o <<"0", "2">>, D(1), <<"x">> >>)
RecShortHLONG == Line(<<TagHLONG \o <<"0", "2">>, D(1), D(2)>>)
RecBadITT == Line(<<TagITT, D(0), <<"x">> >>)
RecShortITT == Line(<<TagITT, D(0)>>)
RecBadOBJ == Line(<<TagOBJ, D(0), D(0), D(0), D(0), D(1), <<"x">> >>)

\* what the peer may answer to one trigger; the last script never ends
Scripts ==
    << <<RecVER, RecHLONG, RecITT, RecOBJ36>>,
       <<RecBadVER, RecITT, RecBadHLONG, RecShortHLONG,
         RecBadITT, RecShortITT, RecBadOBJ, RecOBJshort, RecVER2>>,
       <<RecOBJempty>>,
       <<RecITT>> >>

Endless(s) == s = Len(Scripts)

----------------------------------------------------------------------------
(* State machine of the reader, the tick and the peer *)

MaxCalls == 2       \* ticks of animate
MaxBacklog == 4     \* the endless script pauses above this many unread bytes
MaxPartial == 1     \* receives that return less than the bytes available
RecvMax == 10000    \* sock.recv(10000)

Idle == [cyc |-> 0, script |-> 0, pos |-> 1]

\* the peer has emitted every record of its answer
Finished(d) ==
    IF d.script = 0 THEN TRUE
    ELSE ~Endless(d.script) /\ d.pos > Len(Scripts[d.script])

Tags(n, k) == [i \in 1..n |-> k]

InitReader ==
    /\ pc = "idle"
    /\ st = InitLocals
    /\ tof_id = IdNone
    /\ result = Pending
    /\ signal = Undrawn
    /\ wire = <<>>
    /\ wtag = <<>>
    /\ sent = 0
    /\ dev = Idle
    /\ closed = FALSE
    /\ stale = FALSE
    /\ lastbuf = <<>>
    /\ ev = "none"
    /\ partials = 0

\* animate is entered: get_data_from_EVM_GUI initialises its locals and
\* sends the trigger command (lines 129-133)
AnimateStart ==
    /\ pc = "idle"
    /\ sent < MaxCalls
    /\ pc' = "recv"
    /\ st' = InitLocals
    /\ sent' = sent + 1
    /\ result' = Pending
    /\ stale' = FALSE
    /\ lastbuf' = <<>>
    /\ ev' = "none"
    /\ UNCHANGED <<tof_id, signal, wire, wtag, dev, closed, partials>>

\* the first tick (line 261)
FirstTick == sent = 0 /\ AnimateStart

\* one pass of the while loop on a buffer of n bytes (lines 137-157), and
\* the rest of animate when the reader returns (lines 184-238)
Receive(n, how) ==
    \E c \in {ProcessBuffer(Ctx(st, tof_id), SubSeq(wire, 1, n))} :
       /\ st' = c.st
       /\ tof_id' = c.tof_id
       /\ wire' = SubSeq(wire, n + 1, Len(wire))
       /\ wtag' = SubSeq(wtag, n + 1, Len(wtag))
       /\ lastbuf' = SubSeq(wire, 1, n)
       /\ stale' = (stale \/ \E i \in 1..n : wtag[i] < sent)
       /\ ev' = how
       /\ IF c.exc # "none"
          THEN pc' = "raised" /\ UNCHANGED <<result, signal>>
          ELSE IF c.ret
          THEN /\ result' = SnapshotResult(c.st)
               /\ signal' = Render(SnapshotResult(c.st))
               /\ pc' = IF signal'.kind = "raised" THEN "raised" ELSE "idle"
          ELSE pc' = "recv" /\ UNCHANGED <<result, signal>>
       /\ UNCHANGED <<sent, dev, closed>>

\* sock.recv returns all the bytes available
RecvAll ==
    /\ pc = "recv"
    /\ wire # <<>>
    /\ Len(wire) <= RecvMax
    /\ Receive(Len(wire), "data")
    /\ UNCHANGED partials

\* sock.recv returns n > 0 bytes, fewer than are available
RecvPart(n) ==
    /\ pc = "recv"
    /\ n \in 1..Min(Len(wire) - 1, RecvMax)
    /\ partials < MaxPartial
    /\ partials' = partials + 1
    /\ Receive(n, "data")

\* sock.recv returns b'': the peer has closed and nothing is left to read
RecvClosed ==
    /\ pc = "recv"
    /\ closed
    /\ wire = <<>>
    /\ Receive(0, "closed")
    /\ UNCHANGED partials

\* sock.recv raises socket.timeout (lines 158-160), then animate draws
RecvTimeout ==
    /\ pc = "recv"
    /\ ~closed
    /\ wire = <<>>
    /\ tof_id' = TimeoutId(tof_id)
    /\ result' = NoDeviceResult
    /\ signal' = Render(NoDeviceResult)
    /\ pc' = "idle"
    /\ ev' = "timeout"
    /\ UNCHANGED <<st, wire, wtag, sent, dev, closed, stale, lastbuf, partials>>

\* the peer starts to answer the next trigger it has received
DeviceAnswer(s) ==
    /\ ~closed
    /\ Finished(dev)
    /\ dev.cyc < sent
    /\ wire' = wire \o Scripts[s][1]
    /\ wtag' = wtag \o Tags(Len(Scripts[s][1]), dev.cyc + 1)
    /\ dev' = [cyc |-> dev.cyc + 1, script |-> s, pos |-> 2]
    /\ UNCHANGED <<pc, st, tof_id, result, signal, sent, closed, stale,
                   lastbuf, ev, partials>>

\* the peer emits the next record of its answer
DeviceEmit ==
    /\ ~closed
    /\ ~Finished(dev)
    /\ LET rec == IF Endless(dev.script) THEN Scripts[dev.script][1]
                  ELSE Scripts[dev.script][dev.pos]
       IN /\ Endless(dev.script) => Len(wire) <= MaxBacklog
          /\ wire' = wire \o rec
          /\ wtag' = wtag \o Tags(Len(rec), dev.cyc)
          /\ dev' = IF Endless(dev.script) THEN dev
                    ELSE [dev EXCEPT !.pos = dev.pos + 1]
    /\ UNCHANGED <<pc, st, tof_id, result, signal, sent, closed, stale,
                   lastbuf, ev, partials>>

\* the peer closes the connection while a call is waiting (bytes still
\* unread at that time are read first, so closing with nothing unread
\* covers every order)
PeerClose ==
    /\ pc = "recv"
    /\ ~closed
    /\ wire = <<>>
    /\ closed' = TRUE
    /\ UNCHANGED <<pc, st, tof_id, result, signal, wire, wtag, sent, dev,
                   stale, lastbuf, ev, partials>>

----------------------------------------------------------------------------
(* Harness for the pure functions *)

NotRun == [exc |-> "pending", val |-> PyIntV(0)]

Distances == {0, 10, 90}
Confidences == {0, 20, 50}
Lengths == {0, 1, 500, 1000, 2000}
Alphas == {0, AngleZoneUpDown, AngleZoneLeftRight}

PickInputs ==
    {<<d1, c1, d2, c2>> : d1 \in Distances, c1 \in Confidences,
                          d2 \in Distances, c2 \in Confidences}
      \cup {<<10, 50, 90>>}

CalcInputs == {<<c, e, a>> : c \in Lengths, e \in Lengths, a \in Alphas}

DoPickBest ==
    /\ fn = "pick_best"
    /\ out = NotRun
    /\ LET r == pick_best(args)
       IN out' = [exc |-> r.exc, val |-> PyIntV(r.val)]
    /\ UNCHANGED <<fn, args>>

DoCalcAngle ==
    /\ fn = "calc_angle"
    /\ out = NotRun
    /\ \E r \in {calc_angle(args[1], args[2], args[3])} :
          out' = [exc |-> r.exc,
                  val |-> IF r.exc = "none" THEN r.val ELSE PyIntV(0)]
    /\ UNCHANGED <<fn, args>>

----------------------------------------------------------------------------
(* Specifications *)

Init ==
    /\ InitReader
    /\ fn = "none"
    /\ args = <<>>
    /\ out = NotRun

\* one tick, with receives that may split what is available
Next ==
    \/ FirstTick /\ UNCHANGED pureVars
    \/ RecvAll /\ UNCHANGED pureVars
    \/ (\E n \in 1..Len(wire) : RecvPart(n)) /\ UNCHANGED pureVars
    \/ RecvClosed /\ UNCHANGED pureVars
    \/ RecvTimeout /\ UNCHANGED pureVars
    \/ (\E s \in 1..Len(Scripts) : DeviceAnswer(s)) /\ UNCHANGED pureVars
    \/ DeviceEmit /\ UNCHANGED pureVars
    \/ PeerClose /\ UNCHANGED pureVars

Spec == Init /\ [][Next]_vars

\* successive ticks, each receive returning all that is available
CallsNext ==
    \/ AnimateStart /\ UNCHANGED pureVars
    \/ RecvAll /\ UNCHANGED pureVars
    \/ RecvClosed /\ UNCHANGED pureVars
    \/ RecvTimeout /\ UNCHANGED pureVars
    \/ (\E s \in 1..Len(Scripts) : DeviceAnswer(s)) /\ UNCHANGED pureVars
    \/ DeviceEmit /\ UNCHANGED pureVars
    \/ PeerClose /\ UNCHANGED pureVars

CallsSpec == Init /\ [][CallsNext]_vars

\* a receive that can complete does complete: with data, with b'' or with
\* socket.timeout
Receives ==
    \/ RecvAll /\ UNCHANGED pureVars
    \/ RecvClosed /\ UNCHANGED pureVars
    \/ RecvTimeout /\ UNCHANGED pureVars

FairSpec == Init /\ [][CallsNext]_vars /\ WF_vars(Receives)

PureInit ==
    /\ InitReader
    /\ \/ fn = "pick_best" /\ args \in PickInputs
       \/ fn = "calc_angle" /\ args \in CalcInputs
    /\ out = NotRun

PureNext ==
    \/ DoPickBest /\ UNCHANGED readerVars
    \/ DoCalcAngle /\ UNCHANGED readerVars

PureSpec == PureInit /\ [][PureNext]_vars

----------------------------------------------------------------------------
(* Claims *)

Abs(x) == IF x < 0 THEN 0 - x ELSE x

\* the concatenated records of a script, and what one receive of all of
\* them returns
RECURSIVE Concat(_)
Concat(recs) == IF recs = <<>> THEN <<>> ELSE Head(recs) \o Concat(Tail(recs))

StreamOf(s) == Concat(Scripts[s])

SingleReceive(stream) ==
    SnapshotResult(ProcessBuffer(Ctx(InitLocals, IdNone), stream).st)

EndsInObj(stream) ==
    LET items == Split(stream, CRLF)
    IN /\ Len(items) >= 2
       /\ items[Len(items)] = <<>>
       /\ Split(items[Len(items) - 1], SEMI)[1] = TagOBJ

\* an '#OBJ' record whose payload fields are all integers
WellFormedObj(item) ==
    LET d == Split(item, SEMI)
    IN d[1] = TagOBJ /\ AllInts(SliceFrom(d, 5))

\* a record whose processing fails numeric parsing or field indexing
RecordFails(item) ==
    LET d == Split(item, SEMI)
    IN \/ d[1] = TagVER /\ Len(d) < 4
       \/ /\ SliceTo(d[1], 6) = TagHLONG
          /\ \/ Len(d[1]) < 8
             \/ ~PyInt(<< d[1][8] >>).ok
             \/ ~AllInts(Tail(d))
             \/ Len(d) - 1 <= 5
       \/ d[1] = TagOBJ /\ ~AllInts(SliceFrom(d, 5))
       \/ d[1] = TagITT /\ (Len(d) < 3 \/ ~PyInt(d[3]).ok)

NotFailing(item) == ~RecordFails(item)

\* C1: a receive whose buffer holds a well-formed '#OBJ' record returns a
\* snapshot at the first such record: obj is the integer value of each
\* field after the 5 header fields, in record order (zone i at 4i..4i+3),
\* and xtalk, background, iterations and tof_id are what the records
\* before it left; the records after it in the buffer change nothing.
C1_ObjRecordReturnsSnapshot ==
    [][Len(wire') < Len(wire) =>
        \A items \in {Split(SubSeq(wire, 1, Len(wire) - Len(wire')), CRLF)} :
        \A k \in 1..Len(items) :
            (/\ WellFormedObj(items[k])
             /\ \A y \in 1..(k - 1) : ~WellFormedObj(items[y])) =>
                \A data \in {Split(items[k], SEMI)} :
                \A before \in {ProcessItems(Ctx(st, tof_id),
                                            SubSeq(items, 1, k - 1))} :
                    /\ pc' = "idle"
                    /\ ~result'.obj.isNone
                    /\ Len(result'.obj.v) = Max(0, Len(data) - 5)
                    /\ \A j \in 1..(Len(data) - 5) :
                          result'.obj.v[j] = PyInt(data[5 + j]).val
                    /\ result'.xtalk = PyList(before.st.xtalk)
                    /\ result'.background = PyList(before.st.background)
                    /\ result'.iterations = before.st.iterations
                    /\ tof_id' = before.tof_id]_vars

\* C1 witness: the call returned obj = [12, 34] from a buffer in which a
\* '#VER' record follows the '#OBJ' record, and the identity is not that
\* of the following record
C1_Witness ==
    /\ pc = "idle"
    /\ result.obj = PySome(<<12, 34>>)
    /\ Len(lastbuf) >= Len(RecOBJshort \o RecVER2)
    /\ SubSeq(lastbuf, Len(lastbuf) - Len(RecOBJshort \o RecVER2) + 1,
              Len(lastbuf)) = RecOBJshort \o RecVER2
    /\ tof_id # Ident(D(9), D(9), D(9))

\* C2: every call eventually returns
C2_EveryCallReturns == (pc = "recv") ~> (pc = "idle")

\* C3: a receive that times out makes the call return the 'no device'
\* result without raising: obj None, xtalk, background, iterations 0, and
\* tof_id cleared to ''
C3_TimeoutReturnsNoDevice ==
    ev = "timeout" =>
        /\ pc = "idle"
        /\ result.description = "No device connected"
        /\ result.obj.isNone
        /\ result.xtalk = PyIntV(0)
        /\ result.background = PyIntV(0)
        /\ result.iterations = 0
        /\ tof_id = IdEmpty

\* C3 witness: the timeout came after '#VER', '#HLONG' and '#ITT' records
\* of the same call had been processed
C3_Witness ==
    /\ ev = "timeout"
    /\ dev.script = 1
    /\ dev.pos = 4
    /\ st.iterations = 40
    /\ st.xtalk[2] = 7
    /\ wire = <<>>

\* C4: a receive processes its buffer as if the records that fail numeric
\* parsing or field indexing were not in it: they change nothing, do not
\* end the loop and do not raise, and the records after them are processed
C4_FailingRecordsSkipped ==
    [][Len(wire') < Len(wire) =>
        \A items \in {Split(SubSeq(wire, 1, Len(wire) - Len(wire')), CRLF)} :
        \A c \in {ProcessItems(Ctx(st, tof_id), SelectSeq(items, NotFailing))} :
            /\ st' = c.st
            /\ tof_id' = c.tof_id
            /\ pc' = IF c.ret THEN "idle" ELSE "recv"]_vars

\* C4 witness: one buffer held failing '#VER', '#HLONG', '#ITT' and '#OBJ'
\* records, and the '#ITT' and '#OBJ' records after the first of them
\* were processed
C4_Witness ==
    /\ pc = "idle"
    /\ result.obj = PySome(<<12, 34>>)
    /\ result.iterations = 40
    /\ tof_id = IdNone
    /\ LET items == Split(lastbuf, CRLF)
       IN /\ items[1] \o CRLF = RecBadVER
          /\ \A t \in {TagVER, TagHLONG, TagITT, TagOBJ} :
                \E k \in 1..Len(items) :
                    /\ RecordFails(items[k])
                    /\ SliceTo(items[k], Len(t)) = t

\* C5: pick_best returns the distance of the reading with the strictly
\* higher confidence, and the primary distance when the confidences are
\* equal
C5_PickBestTiesPrimary ==
    (fn = "pick_best" /\ out.exc # "pending" /\ Len(args) = 4) =>
        /\ out.exc = "none"
        /\ out.val.v = IF args[4] > args[2] THEN args[3] ELSE args[1]

\* C6: a snapshot is built only from records emitted for the call's own
\* trigger
C6_FreshCycle == (pc = "idle" /\ ev = "data") => ~stale

\* C7: calc_angle returns exactly 0 and does not raise whenever the third
\* side a is zero, in particular for calc_angle(0, 0, alpha) and for
\* center = edge with alpha = 0
C7_ZeroSideReturnsZero ==
    (/\ fn = "calc_angle"
     /\ out.exc # "pending"
     /\ \/ ThirdSide(args[1], args[2], args[3]) = 0
        \/ args[1] = 0 /\ args[2] = 0
        \/ args[1] = args[2] /\ args[3] = 0)
     => (out.exc = "none" /\ out.val = PyIntV(0))

\* C7 witness: calc_angle(0, 0, 11) has returned
C7_Witness ==
    /\ fn = "calc_angle"
    /\ args = <<0, 0, AngleZoneLeftRight>>
    /\ out = Return(PyIntV(0))

\* C8 as claimed: calc_angle(1000, 1000, 11) is zero within tolerance
C8_EqualDistancesReadFlat ==
    (fn = "calc_angle" /\ out.exc # "pending"
       /\ args = <<1000, 1000, AngleZoneLeftRight>>) =>
        /\ out.exc = "none"
        /\ Abs(out.val.v) <= AngleTol

\* C8 amended: with equal, non-zero center and edge distances calc_angle
\* returns half the separation angle, so calc_angle(1000, 1000, 11) is
\* 5.5 within tolerance
C8_EqualDistancesReadHalfAlpha ==
    (fn = "calc_angle" /\ out.exc # "pending"
       /\ args[1] = args[2] /\ args[1] > 0 /\ args[3] > 0) =>
        /\ out.exc = "none"
        /\ out.val.t = "float"
        /\ Abs(2 * out.val.v - args[3]) <= 2 * AngleTol

\* C8 witness: calc_angle(1000, 1000, 11) has returned a float
C8_Witness ==
    /\ fn = "calc_angle"
    /\ args = <<1000, 1000, AngleZoneLeftRight>>
    /\ out.exc = "none"
    /\ out.val.t = "float"

\* C9: a tick signals 'No Device Connected' exactly when the reader
\* returned the 'no device' result, whatever the length of an '#OBJ' payload
C9_DisconnectedIffNoDevice ==
    (pc = "idle" /\ sent > 0) =>
        (signal.kind = "disconnected" <=> ev = "timeout")

\* C10: when the whole answer of the peer ends in an '#OBJ' record, the
\* snapshot a call returns is the one a single receive of the whole answer
\* returns, however the answer was cut into receives
C10_ChunkingIrrelevant ==
    (/\ pc = "idle"
     /\ sent = 1
     /\ ev = "data"
     /\ dev.script # 0
     /\ Finished(dev)
     /\ EndsInObj(StreamOf(dev.script))) =>
        LET one == SingleReceive(StreamOf(dev.script))
        IN /\ result.xtalk = one.xtalk
           /\ result.background = one.background
           /\ result.iterations = one.iterations
           /\ result.obj = one.obj

====
